---------------------------- MODULE Spec2Model ----------------------------
(***************************************************************************)
(* A model of the crypton library: the GOST 28147-89 engine               *)
(* (class Cryptographer) and the random generator built on it (class      *)
(* RandomGen).                                                             *)
(*                                                                         *)
(* Number representation.  TLC's integers are 32-bit signed, so a uint32  *)
(* is kept as a pair <<lo, hi>> of 16-bit limbs (value lo + 2^16 * hi)    *)
(* and a uint64 as a pair <<N1, N2>> of uint32 (N1 the low half).  All    *)
(* arithmetic is done at the width the C++ code does it.  memcpy between  *)
(* a byte array and an integer is little-endian (the x86 hosts the        *)
(* library is built for).                                                  *)
(***************************************************************************)
EXTENDS Integers, Sequences, FiniteSets, TLC

(***************************************************************************)
(* Bounds of the model.                                                    *)
(***************************************************************************)
\* Longest data buffer (bytes) handed to a transform: covers 0, a lone
\* partial block, one and two full blocks, and two blocks plus a tail.
MaxLen == 17
\* Number of transform calls the caller makes on one loaded buffer.
MaxCalls == 2

(***************************************************************************)
(* Unsigned integers: typedefs uint8, uint32, uint64 of cryptographer.h.  *)
(***************************************************************************)
byteSize == 8

B16 == 2^16

Byte == 0..255

\* a ^ b on naturals
RECURSIVE XorN(_, _)
XorN(a, b) ==
    IF a = 0 THEN b
    ELSE IF b = 0 THEN a
    ELSE ((a + b) % 2) + 2 * XorN(a \div 2, b \div 2)

\* a | b on naturals
RECURSIVE OrN(_, _)
OrN(a, b) ==
    IF a = 0 THEN b
    ELSE IF b = 0 THEN a
    ELSE (IF a % 2 = 1 \/ b % 2 = 1 THEN 1 ELSE 0) + 2 * OrN(a \div 2, b \div 2)

U32Zero == <<0, 0>>
U32Max == <<B16 - 1, B16 - 1>>
U64Zero == <<U32Zero, U32Zero>>

\* uint32 from its 16-bit limbs given as one natural each
U32(lo, hi) == <<lo, hi>>

XorTab == [a \in 0..255 |-> [b \in 0..255 |-> XorN(a, b)]]
Xor16(a, b) == XorTab[a % 256][b % 256] + 256 * XorTab[a \div 256][b \div 256]
XorU32(x, y) == <<Xor16(x[1], y[1]), Xor16(x[2], y[2])>>
OrU32(x, y) == <<OrN(x[1], y[1]), OrN(x[2], y[2])>>
OrU64(x, y) == <<OrU32(x[1], y[1]), OrU32(x[2], y[2])>>
\* x | y taken for x ^ y
XorU64AsOr(x, y) == OrU64(x, y)
XorU64(x, y) == <<XorU32(x[1], y[1]), XorU32(x[2], y[2])>>

\* (uint64)x + y for uint32 x, y: the 33-bit sum as [c |-> bit 32, w |-> low 32 bits]
AddU32Wide(x, y) ==
    LET lo == x[1] + y[1]
        hi == x[2] + y[2] + (lo \div B16)
    IN  [c |-> hi \div B16, w |-> <<lo % B16, hi % B16>>]

\* x + y computed in uint32 (wraps modulo 2^32)
AddU32(x, y) == AddU32Wide(x, y).w

\* x + 1 in uint32
IncU32(x) == AddU32(x, <<1, 0>>)

\* v % (2^32 - 1) for a 33-bit v = c * 2^32 + w with v <= 2^33 - 2
ModPow32m1(v) ==
    LET r == IF v.c = 1 THEN IncU32(v.w) ELSE v.w
    IN  IF r = U32Max THEN U32Zero ELSE r

\* the low 32 bits and the high 32 bits of a uint64
LoU32(d) == d[1]
HiU32(d) == d[2]

\* memcpy(&block, &bytes[1..8], 8) and back, little-endian
U32OfBytes(b) == <<b[1] + 256 * b[2], b[3] + 256 * b[4]>>
BytesOfU32(w) == <<w[1] % 256, w[1] \div 256, w[2] % 256, w[2] \div 256>>
U64OfBytes(b) == <<U32OfBytes(SubSeq(b, 1, 4)), U32OfBytes(SubSeq(b, 5, 8))>>
BytesOfU64(d) == BytesOfU32(d[1]) \o BytesOfU32(d[2])

(***************************************************************************)
(* Cryptographer: the engine state is [m_key, m_replace_table]; the key   *)
(* is 8 uint32, the table 8 rows of 16 entries (indices shifted by one:   *)
(* TLA+ sequences start at 1).                                             *)
(***************************************************************************)
\* Cryptographer::Cryptographer(): m_key(), m_replace_table() are zeroed
NewCryptographer ==
    [m_key |-> [i \in 1..8 |-> U32Zero],
     m_replace_table |-> [i \in 1..8 |-> [j \in 1..16 |-> 0]]]

\* nibble i (0..7) of a uint32: (S & mask[i]) >> (i * 4)
Nibble(x, i) ==
    IF i < 4 THEN (x[1] \div (16 ^ i)) % 16
    ELSE (x[2] \div (16 ^ (i - 4))) % 16

\* step 2 of mainStep: tmp_res += m_replace_table[i][Si] << (i * 4), i = 0..7
Substitute(c, x) ==
    LET t(i) == c.m_replace_table[i + 1][Nibble(x, i) + 1]
        lo == t(0) + 16 * t(1) + 256 * t(2) + 4096 * t(3)
        hi == t(4) + 16 * t(5) + 256 * t(6) + 4096 * t(7) + (lo \div B16)
    IN  <<lo % B16, hi % B16>>

\* step 3 of mainStep: (x >> 21) | (x << 11) in uint32
Rotl11(x) ==
    LET top11 == x[2] \div 32
        rem21 == (x[2] % 32) * B16 + x[1]
    IN  <<(rem21 % 32) * 2048 + top11, rem21 \div 32>>

mainStep(c, data0, key_num) ==
    LET N1 == LoU32(data0)
        N2 == HiU32(data0)
        S1 == ModPow32m1(AddU32Wide(N1, c.m_key[key_num + 1]))
        tmp_res == Substitute(c, S1)
        S3 == Rotl11(tmp_res)
        S4 == XorU32(S3, N2)
    IN  <<S4, N1>>

KeysUp == <<0, 1, 2, 3, 4, 5, 6, 7>>
KeysDown == <<7, 6, 5, 4, 3, 2, 1, 0>>

\* the key word used in each round of the three cycles
Order32Z == KeysUp \o KeysUp \o KeysUp \o KeysDown
\* a decrypt order that mirrors only the last two groups of the encrypt order
Order32RHalfMirror == KeysUp \o KeysUp \o KeysDown \o KeysDown
Order32R == KeysUp \o KeysDown \o KeysDown \o KeysDown
Order16Z == KeysUp \o KeysUp

\* data = mainStep(data, j) for j running through order; st = [data, n] is
\* the block and the number of the next round
RECURSIVE Steps(_, _, _)
Steps(c, st, order) ==
    IF st.n > Len(order) THEN st.data
    ELSE Steps(c, [data |-> mainStep(c, st.data, order[st.n]), n |-> st.n + 1], order)

\* pow((uint64)N1, 32) | N2: the low half goes up, the high half comes down
SwapHalves(data0) == <<HiU32(data0), LoU32(data0)>>

cycle_32Z(c, data0) == SwapHalves(Steps(c, [data |-> data0, n |-> 1], Order32Z))

cycle_32R(c, data0) == SwapHalves(Steps(c, [data |-> data0, n |-> 1], Order32R))

cycle_16Z(c, data0) == Steps(c, [data |-> data0, n |-> 1], Order16Z)

(***************************************************************************)
(* The four transforms.  A buffer is a sequence of bytes and _size is its *)
(* length; byte offset i of the code is index i + 1 here.  The state of a *)
(* loop is a record st, and each loop is written as: the loop, then the   *)
(* handling of the tail that follows it.                                   *)
(***************************************************************************)
\* the n bytes at offset i, zero-padded to 8: block = 0; memcpy(&block, &_data[i], n)
LoadBlock(d, i, n) ==
    U64OfBytes(SubSeq(d, i + 1, i + n) \o [k \in 1..(8 - n) |-> 0])

\* memcpy(&_data[i], &block, n)
StoreBlock(d, i, block, n) ==
    SubSeq(d, 1, i) \o SubSeq(BytesOfU64(block), 1, n) \o SubSeq(d, i + n + 1, Len(d))

\* uint32 tail_size = i == _size ? 0 : _size - i
TailSize(i, size) == IF i = size THEN 0 ELSE size - i

\* the loop of simpleReplace; st = [data, i]
RECURSIVE simpleReplaceLoop(_, _, _)
simpleReplaceLoop(c, st, encoding) ==
    IF ~(st.i < Len(st.data)) THEN st
    ELSE simpleReplaceLoop(c,
            [data |-> StoreBlock(st.data, st.i,
                                 IF encoding THEN cycle_32Z(c, LoadBlock(st.data, st.i, 8))
                                             ELSE cycle_32R(c, LoadBlock(st.data, st.i, 8)),
                                 8),
             i |-> st.i + 8],
            encoding)

\* a simpleReplace that reports the bad length after transforming the whole
\* blocks the buffer holds
simpleReplaceNoGuard(c, d, encoding) ==
    [ret |-> Len(d) % 8 = 0,
     data |-> simpleReplaceLoop(c, [data |-> SubSeq(d, 1, Len(d) - (Len(d) % 8)), i |-> 0],
                                encoding).data
              \o SubSeq(d, Len(d) - (Len(d) % 8) + 1, Len(d))]

simpleReplace(c, d, encoding) ==
    IF Len(d) % 8 # 0 THEN [ret |-> FALSE, data |-> d]
    ELSE [ret |-> TRUE, data |-> simpleReplaceLoop(c, [data |-> d, i |-> 0], encoding).data]

C1 == U32(257, 257)
C2 == U32(260, 257)

\* S0 = (S0 + C1) % pow2(32)
NextS0(S0) == AddU32(S0, C1)

\* S1 = (S1 + C2 - 1) % (pow2(32) - 1) + 1, the sum S1 + C2 - 1 taken in uint32
NextS1(S1) == IncU32(ModPow32m1([c |-> 0, w |-> AddU32(AddU32(S1, C2), U32Max)]))

\* the counter loop of gamming; st = [data, S0, S1, S, i, used], used being
\* the values of S whose encryption was XORed into a block so far
RECURSIVE gammingLoop(_, _)
gammingLoop(c, st) ==
    IF ~(st.i + 8 < Len(st.data)) THEN st
    ELSE LET Sn == <<NextS0(st.S0), NextS1(st.S1)>>
         IN  gammingLoop(c,
                [data |-> StoreBlock(st.data, st.i,
                                     XorU64(LoadBlock(st.data, st.i, 8), cycle_32Z(c, Sn)), 8),
                 S0 |-> LoU32(Sn), S1 |-> HiU32(Sn), S |-> Sn, i |-> st.i + 8,
                 used |-> Append(st.used, Sn)])

\* S = cycle_32Z(S) and the split into the two counters, before the loop
gammingInit(Sa, d) ==
    [data |-> d, S0 |-> LoU32(Sa), S1 |-> HiU32(Sa), S |-> Sa, i |-> 0, used |-> <<>>]

\* the tail of gamming and of gammingWF, after the loop
gammaTail(c, st) ==
    LET tail_size == TailSize(st.i, Len(st.data))
    IN  IF tail_size # 0
        THEN [ret |-> TRUE,
              data |-> StoreBlock(st.data, st.i,
                                  XorU64(LoadBlock(st.data, st.i, tail_size),
                                         cycle_32Z(c, st.S)),
                                  tail_size),
              S |-> st.S, used |-> Append(st.used, st.S)]
        ELSE [ret |-> TRUE, data |-> st.data, S |-> st.S, used |-> st.used]

gamming(c, d, S_in) == gammaTail(c, gammingLoop(c, gammingInit(cycle_32Z(c, S_in), d)))

\* a pass that feeds the output block back in both directions
gammingWFStepOutputFeedback(st, tmp_block, block, encoding) ==
    [data |-> StoreBlock(st.data, st.i, block, 8),
     S |-> block,
     i |-> st.i + 8, used |-> Append(st.used, st.S)]

\* a pass that leaves S as it was
gammingWFStepNoFeedback(st, tmp_block, block, encoding) ==
    [data |-> StoreBlock(st.data, st.i, block, 8),
     S |-> st.S,
     i |-> st.i + 8, used |-> Append(st.used, st.S)]

\* one pass of the loop of gammingWF on the block tmp_block: the new st
gammingWFStep(st, tmp_block, block, encoding) ==
    [data |-> StoreBlock(st.data, st.i, block, 8),
     S |-> IF encoding THEN block ELSE tmp_block,
     i |-> st.i + 8, used |-> Append(st.used, st.S)]

\* the loop of gammingWF; st = [data, S, i, used]
RECURSIVE gammingWFLoop(_, _, _)
gammingWFLoop(c, st, encoding) ==
    IF ~(st.i + 8 < Len(st.data)) THEN st
    ELSE gammingWFLoop(c,
            gammingWFStep(st, LoadBlock(st.data, st.i, 8),
                          XorU64(LoadBlock(st.data, st.i, 8), cycle_32Z(c, st.S)),
                          encoding),
            encoding)

gammingWF(c, d, S_in, encoding) ==
    gammaTail(c, gammingWFLoop(c, [data |-> d, S |-> S_in, i |-> 0, used |-> <<>>], encoding))

\* the loop of imiIns; st = [S, i]
RECURSIVE imiInsLoop(_, _, _)
imiInsLoop(c, d, st) ==
    IF ~(st.i + 8 < Len(d)) THEN st
    ELSE imiInsLoop(c, d, [S |-> cycle_16Z(c, XorU64(st.S, LoadBlock(d, st.i, 8))),
                           i |-> st.i + 8])

\* the tail of imiIns, after the loop
imiInsTail(c, d, st) ==
    LET tail_size == TailSize(st.i, Len(d))
    IN  IF tail_size # 0
        THEN LoU32(cycle_16Z(c, XorU64(st.S, LoadBlock(d, st.i, tail_size))))
        ELSE LoU32(st.S)

imiIns(c, d) == imiInsTail(c, d, imiInsLoop(c, d, [S |-> U64Zero, i |-> 0]))

(***************************************************************************)
(* The environment of the generator: the C library's random() and the     *)
(* device /dev/urandom.                                                    *)
(*                                                                         *)
(* random() is a deterministic function of the seed given to srandom()    *)
(* and of the number of values drawn since; it returns 31-bit values.     *)
(* The function below stands for the C library's generator.  A process    *)
(* that never called srandom() draws as after srandom(1).                 *)
(***************************************************************************)
\* the n-th value (n from 0) random() returns after srandom(seed)
Random(seed, n) ==
    U32(((n + 2) * (n + 30) * 2529 + seed * 7244 + 4120) % B16,
        ((n + 17) * (n + 7) * 840 + seed * 17912 + 13917) % (B16 \div 2))

\* the value of a uint32 below 2^31 as an integer
IntOfU32(w) == w[1] + B16 * w[2]

\* Cryptographer::init(_rand) after srandom(seed): the key word i is the
\* draw 17 * i, the table row i the 16 draws that follow it
Cryptographer_init(seed) ==
    [m_key |-> [i \in 1..8 |-> Random(seed, 17 * (i - 1))],
     m_replace_table |->
        [i \in 1..8 |-> [j \in 1..16 |-> IntOfU32(Random(seed, 17 * (i - 1) + j)) % 15]]]

\* the number of values Cryptographer::init draws from random()
InitDraws == 8 * 17

(***************************************************************************)
(* class RandomGen.  rand_seq is a sequence of sizeof(rand_seq) bytes.    *)
(* The size of the array is a bound of the model, a whole number of       *)
(* uint32 words as the filling loops need; the bounds of the three tests, *)
(* which the code states for the 20000 bits of its array, are taken in    *)
(* proportion to the bits of the model's array.                           *)
(***************************************************************************)
\* sizeof(rand_seq) / sizeof(uint32)
SeqWords == 3
\* the number n of nextInt32 draws checkSum makes (100 in the code)
CheckDraws == 2
\* random() is followed for this many values after a srandom()
MaxRandom == 160
\* the do-while of createNewRandSequence is followed for this many passes
MaxTries == 3
\* the number of calls the process makes on its RandomGen objects
MaxGenCalls == 6

\* sizeof(rand_seq)
seq_size == 4 * SeqWords
seq_bits_size == seq_size * byteSize

\* the number of 4-bit groups the code's array holds: the 5000 of test2
RefNibbles == 5000
RefBits == 4 * RefNibbles

\* a bound the code gives for RefBits bits, for the bits of the model's
\* array: a lower bound rounded down, an upper bound rounded up
ScaleMin(b) == (b * seq_bits_size) \div RefBits
ScaleMax(b) == (b * seq_bits_size + RefBits - 1) \div RefBits

\* rand_seq[i / byteSize] & (1 << (i % byteSize)), as a bool
SeqBit(seq, i) == (seq[i \div byteSize + 1] \div 2^(i % byteSize)) % 2 = 1

begin_min_count == 9725
begin_max_count == 10275

test1(seq) ==
    LET zero == Cardinality({i \in 0..(seq_bits_size - 1) : SeqBit(seq, i)})
    IN  zero >= ScaleMin(begin_min_count) /\ zero <= ScaleMax(begin_max_count)

\* the n of test2 for the pattern i: the groups of four bits, taken at
\* j = 0, 4, 8, ..., whose bits are those of i
PatternCount(seq, i) ==
    Cardinality({j \in 0..(seq_bits_size \div 4 - 1) :
        /\ SeqBit(seq, 4 * j) = (i % 2 = 1)
        /\ SeqBit(seq, 4 * j + 1) = ((i \div 2) % 2 = 1)
        /\ SeqBit(seq, 4 * j + 2) = ((i \div 4) % 2 = 1)
        /\ SeqBit(seq, 4 * j + 3) = ((i \div 8) % 2 = 1)})

\* n_sum after the patterns 0..i
RECURSIVE SquareSum(_, _)
SquareSum(seq, i) ==
    IF i < 0 THEN 0
    ELSE PatternCount(seq, i) * PatternCount(seq, i) + SquareSum(seq, i - 1)

\* X = (16. / 5000.) * n_sum - 5000. against 2.16 and 46.17, in hundredths
\* and multiplied by the number of groups, which 5000 is in the code
test2(seq) ==
    LET groups == seq_bits_size \div 4
        X100 == 100 * (16 * SquareSum(seq, 15) - groups * groups)
    IN  X100 >= 216 * groups /\ X100 <= 4617 * groups

min_bounds == <<2343, 1135, 542, 251, 111, 111>>
max_bounds == <<2657, 1365, 708, 373, 201, 201>>
\* the longest series test3 lets pass
MaxSeries == 26

\* the series the inner loop of test3 finds one after another, from i = 1:
\* st = [i, runs], a run being [bit_count, biti_1]
RECURSIVE SeriesEnd(_, _, _)
SeriesEnd(seq, i, bit_count) ==
    \* the do-while: one pass compares the bits i and i - 1
    IF i + 1 < seq_bits_size /\ SeqBit(seq, i) = SeqBit(seq, i - 1)
    THEN SeriesEnd(seq, i + 1, bit_count + 1)
    ELSE [i |-> i + 1, bit_count |-> bit_count + 1, biti_1 |-> SeqBit(seq, i - 1)]

\* st after the series the inner loop has just found
SeriesNext(st, e) ==
    [i |-> e.i,
     runs |-> Append(st.runs, [bit_count |-> e.bit_count, biti_1 |-> e.biti_1])]

\* the outer loop over i of test3
RECURSIVE Series(_, _)
Series(seq, st) ==
    IF ~(st.i < seq_bits_size) THEN st.runs
    ELSE Series(seq, SeriesNext(st, SeriesEnd(seq, st.i, 0)))

\* bit_count == n + 1 || (bit_count >= n + 1 && n + 1 == 6)
Counted(run, n) ==
    run.bit_count = n + 1 \/ (run.bit_count >= n + 1 /\ n + 1 = 6)

\* count0 (bit = FALSE) and count1 (bit = TRUE) of the pass n
SeriesCount(runs, n, bit) ==
    Cardinality({k \in DOMAIN runs : Counted(runs[k], n) /\ runs[k].biti_1 = bit})

\* every pass n meets the same series: one longer than 26 fails the first
\* pass, and the counts of each pass are held against its bounds
test3Series(runs) ==
    /\ \A k \in DOMAIN runs : ~(runs[k].bit_count > MaxSeries)
    /\ \A n \in 0..5 :
          ~(\/ SeriesCount(runs, n, FALSE) < ScaleMin(min_bounds[n + 1])
            \/ SeriesCount(runs, n, FALSE) > ScaleMax(max_bounds[n + 1])
            \/ SeriesCount(runs, n, TRUE) < ScaleMin(min_bounds[n + 1])
            \/ SeriesCount(runs, n, TRUE) > ScaleMax(max_bounds[n + 1]))

test3(seq) == test3Series(Series(seq, [i |-> 1, runs |-> <<>>]))

isCurrentSeq(seq) == test1(seq) /\ test2(seq) /\ test3(seq)

\* the words /dev/urandom delivers to the library during one call, in the
\* run e of the device: word k, from 0
Urandom(e, k) ==
    U32(((k + 1) * (k + e) * 2311 + e * 40009 + 4567) % B16,
        ((k + 2) * (k + e + 3) * 1999 + e * 30103 + 8901) % B16)

\* the device delivers this many words to one call, then a read fails
StreamLen == 8

Stream(e) == [k \in 1..StreamLen |-> Urandom(e, k - 1)]

(***************************************************************************)
(* A call of a method is followed on a record r, which holds the object   *)
(* g the method works on and what the call sees of its environment:       *)
(*   seed, n   the seed of random() and the number of values drawn,       *)
(*   dev, ent  whether /dev/urandom can be opened, and the words it still *)
(*             has to deliver,                                             *)
(*   shl       what the build makes of a shift by the width or more,      *)
(*   alive     FALSE once exit(1) was called,                             *)
(*   cut       TRUE once the call needs more of random() than MaxRandom,  *)
(*             or more passes of a loop than MaxTries,                     *)
(* the locals that pass from one method to its caller (res, res32, res64, *)
(* S0, S1, Z), and a log of the call: reads, the bytes nextInt8 read      *)
(* (the array as it was, and the index), rejected, the number of arrays   *)
(* isCurrentSeq turned down, and refills, the number of times             *)
(* createNewRandSequence came to its end.                                  *)
(***************************************************************************)
Running(r) == r.alive /\ ~r.cut

\* exit(1)
Exit(r) == [r EXCEPT !.alive = FALSE]

Cut(r) == [r EXCEPT !.cut = TRUE]

\* the bytes of a sequence of uint32, as memcpy lays them one after another
WordsToBytes(ws) ==
    [k \in 1..(4 * Len(ws)) |-> BytesOfU32(ws[((k - 1) \div 4) + 1])[((k - 1) % 4) + 1]]

\* the filling loop with tmp = random()
FillRandom(r) ==
    IF r.n + SeqWords > MaxRandom THEN Cut(r)
    ELSE [r EXCEPT !.g.rand_seq =
                       WordsToBytes([k \in 1..SeqWords |-> Random(r.seed, r.n + k - 1)]),
                   !.g.filled_by = "random",
                   !.n = @ + SeqWords]

\* the filling loop with fread(&tmp, ...): a read that fails ends the
\* process, the words read before it being in the array
FillDevice(r) ==
    IF Len(r.ent) < SeqWords
    THEN Exit([r EXCEPT !.g.rand_seq = WordsToBytes(r.ent)
                                           \o SubSeq(@, 4 * Len(r.ent) + 1, seq_size),
                        !.g.filled_by = "device",
                        !.ent = <<>>])
    ELSE [r EXCEPT !.g.rand_seq = WordsToBytes(SubSeq(r.ent, 1, SeqWords)),
                   !.g.filled_by = "device",
                   !.ent = SubSeq(@, SeqWords + 1, Len(@))]

\* the result w of cr.gammingWF(rand_seq, sizeof(rand_seq), S, true)
StoreGammingWF(r, w) == [r EXCEPT !.g.rand_seq = w.data, !.g.S = w.S]

EncryptSeq(r) ==
    IF ~Running(r) THEN r
    ELSE StoreGammingWF(r, gammingWF(r.g.cr, r.g.rand_seq, r.g.S, TRUE))

\* one pass of the do-while of createNewRandSequence
Attempt(r) ==
    IF ~Running(r) THEN r
    ELSE EncryptSeq(IF ~r.g.initialized THEN FillRandom(r) ELSE FillDevice(r))

\* a loop that takes the array of the first pass as it is
createLoopFirstPass(r, k) == r

\* while(!isCurrentSeq()), r being the state after the pass k
RECURSIVE createLoop(_, _)
createLoop(r, k) ==
    IF ~Running(r) \/ isCurrentSeq(r.g.rand_seq) THEN r
    ELSE IF k >= MaxTries THEN Cut(r)
    ELSE createLoop(Attempt([r EXCEPT !.rejected = @ + 1]), k + 1)

\* curr_pos = 0
ResetPos(r) ==
    IF ~Running(r) THEN r ELSE [r EXCEPT !.g.curr_pos = 0, !.refills = @ + 1]

createNewRandSequence(r) ==
    IF ~Running(r) THEN r
    ELSE IF ~r.dev THEN Exit(r)
    ELSE ResetPos(createLoop(Attempt(r), 1))

\* rand_seq[curr_pos]
SeqByte(seq, pos) == IF pos < Len(seq) THEN seq[pos + 1] ELSE 0

\* uint8 res = rand_seq[curr_pos]; curr_pos++ (the read is recorded with
\* the array, how it was filled, and the key and the flag of the object)
ReadByte(r) ==
    IF ~Running(r) THEN r
    ELSE [r EXCEPT !.res = SeqByte(r.g.rand_seq, r.g.curr_pos),
                   !.g.curr_pos = @ + 1,
                   !.reads = Append(@, [seq |-> r.g.rand_seq, pos |-> r.g.curr_pos,
                                        filled_by |-> r.g.filled_by, cr |-> r.g.cr,
                                        initialized |-> r.g.initialized])]

\* a nextInt8 that reads without looking at curr_pos
nextInt8NoRefill(r) == ReadByte(r)

\* a nextInt8 that leaves the object marked as not initialized
nextInt8ClearingFlag(r) ==
    IF ~Running(r) THEN r
    ELSE [ReadByte(IF r.g.curr_pos = seq_size THEN createNewRandSequence(r) ELSE r)
             EXCEPT !.g.initialized = FALSE]

nextInt8(r) ==
    IF ~Running(r) THEN r
    ELSE ReadByte(IF r.g.curr_pos = seq_size THEN createNewRandSequence(r) ELSE r)

\* (uint32)b << sh for a byte b and sh = 0, 8, 16, 24
ShlU32(b, sh) ==
    IF sh < 16 THEN U32((b * 2^sh) % B16, (b * 2^sh) \div B16)
    ELSE U32(0, (b * 2^(sh - 16)) % B16)

\* (uint64)b << sh for a byte b and sh = 0, 8, ..., 56
ShlU64(b, sh) ==
    IF sh < 32 THEN <<ShlU32(b, sh), U32Zero>> ELSE <<U32Zero, ShlU32(b, sh - 32)>>

\* res |= (uint32)nextInt8() << ((3 - i) * byteSize)
Accum32HighFirst(r, i) ==
    IF ~Running(r) THEN r
    ELSE [r EXCEPT !.res32 = OrU32(@, ShlU32(r.res, (3 - i) * byteSize))]

\* res |= (uint32)nextInt8() << (i * byteSize), r being the state after nextInt8()
Accum32(r, i) ==
    IF ~Running(r) THEN r
    ELSE [r EXCEPT !.res32 = OrU32(@, ShlU32(r.res, i * byteSize))]

RECURSIVE nextInt32Loop(_, _)
nextInt32Loop(r, i) ==
    IF ~(i < 4) \/ ~Running(r) THEN r
    ELSE nextInt32Loop(Accum32(nextInt8(r), i), i + 1)

nextInt32(r) == nextInt32Loop([r EXCEPT !.res32 = U32Zero], 0)

Accum64(r, i) ==
    IF ~Running(r) THEN r
    ELSE [r EXCEPT !.res64 = OrU64(@, ShlU64(r.res, i * byteSize))]

RECURSIVE nextInt64Loop(_, _)
nextInt64Loop(r, i) ==
    IF ~(i < 8) \/ ~Running(r) THEN r
    ELSE nextInt64Loop(Accum64(nextInt8(r), i), i + 1)

nextInt64(r) == nextInt64Loop([r EXCEPT !.res64 = U64Zero], 0)

\* (S0 + v) % ((1 << 16) - 1), the sum taken in uint32; 2^16 is 1 modulo 2^16 - 1
SumMod(S0, v) ==
    LET s == AddU32(U32(S0, 0), v) IN (s[1] + s[2]) % (B16 - 1)

\* S0 = (S0 + nextInt32()) % 65535; S1 = (S1 + S0) % 65535
checkAccum(r) ==
    IF ~Running(r) THEN r
    ELSE [r EXCEPT !.S0 = SumMod(@, r.res32),
                   !.S1 = (@ + SumMod(r.S0, r.res32)) % (B16 - 1)]

RECURSIVE checkLoop(_, _)
checkLoop(r, i) ==
    IF ~(i < CheckDraws) \/ ~Running(r) THEN r
    ELSE checkLoop(checkAccum(nextInt32(r)), i + 1)

\* Z = Z0 | (uint64)Z1 << 32 with Z0 = S0 and Z1 = 65535 - S1
checkZ(r) ==
    IF ~Running(r) THEN r
    ELSE [r EXCEPT !.Z = <<U32(r.S0, 0), U32(B16 - 1 - r.S1, 0)>>]

\* S = 10781
checkStart(r) == [r EXCEPT !.g.S = <<U32(10781, 0), U32Zero>>, !.S0 = 0, !.S1 = 0]

\* checkSum(): the value returned is r.Z
checkSum(r) == checkZ(checkLoop(EncryptSeq(FillRandom(checkStart(r))), 0))

\* what the builds make of 1 << i for i >= 32, which the language leaves
\* undefined: the shift count taken modulo 32, or a result of 0
ShiftModes == {"wrap", "zero"}

\* S & (1 << i) as a bool, 1 << i being an int: for i = 31 it is INT_MIN,
\* which converts to the uint64 0xffffffff80000000
RECURSIVE MaskHit(_, _, _)
MaskHit(S_in, i, shl) ==
    IF i < 16 THEN (LoU32(S_in)[1] \div 2^i) % 2 = 1
    ELSE IF i < 31 THEN (LoU32(S_in)[2] \div 2^(i - 16)) % 2 = 1
    ELSE IF i = 31 THEN LoU32(S_in)[2] >= B16 \div 2 \/ HiU32(S_in) # U32Zero
    ELSE IF shl = "wrap" THEN MaskHit(S_in, i - 32, shl)
    ELSE FALSE

\* isCurrentS() on the value S_in of S: zero and diff are uint8, bound is
\* the float 64 * 0.12
isCurrentS(S_in, shl) ==
    LET S_bits_size == 8 * byteSize
        zero == Cardinality({i \in 0..(S_bits_size - 1) : MaskHit(S_in, i, shl)})
        diff == (zero - (S_bits_size - zero)) % 256
    IN  ~(100 * diff >= 12 * S_bits_size \/ 100 * diff <= -(12 * S_bits_size))

\* the key and the table of cr.init(false)
FixedCryptographer == Cryptographer_init(0)

\* cr.init(false): srandom(0) and the key and table drawn after it
initFixed(r) == [r EXCEPT !.g.cr = FixedCryptographer, !.seed = 0, !.n = InitDraws]

\* an init that goes on whatever checkSum() returned
initCheckIgnored(r) == r

\* if(cs != checkSum()) exit(1), r being the state after checkSum()
initCheck(r) ==
    IF ~Running(r) THEN r
    ELSE IF r.g.cs # r.Z THEN Exit(r)
    ELSE r

\* cr.init() at the time t, then fopen("/dev/urandom")
initSeed(r, t) ==
    IF ~Running(r) THEN r
    ELSE IF ~r.dev
         THEN Exit([r EXCEPT !.g.cr = Cryptographer_init(t), !.seed = t, !.n = InitDraws])
         ELSE [r EXCEPT !.g.cr = Cryptographer_init(t), !.seed = t, !.n = InitDraws]

\* one pass of the do-while of init: S = n1 | (uint64)n2 << 32, then
\* cr.simpleReplace((uint8*)&S, sizeof(S), true)
initAttempt(r) ==
    IF ~Running(r) THEN r
    ELSE IF r.n + 1 > MaxRandom THEN Cut(r)
    ELSE IF r.ent = <<>> THEN Exit([r EXCEPT !.n = @ + 1])
    ELSE [r EXCEPT !.g.S = U64OfBytes(simpleReplace(r.g.cr,
                                        BytesOfU64(<<Random(r.seed, r.n), Head(r.ent)>>),
                                        TRUE).data),
                   !.n = @ + 1,
                   !.ent = Tail(@)]

\* while(!isCurrentS()), r being the state after a pass
RECURSIVE initLoop(_)
initLoop(r) ==
    IF ~Running(r) \/ isCurrentS(r.g.S, r.shl) THEN r
    ELSE initLoop(initAttempt(r))

\* initialized = true; createNewRandSequence()
initFinish(r) ==
    IF ~Running(r) THEN r
    ELSE createNewRandSequence([r EXCEPT !.g.initialized = TRUE])

\* RandomGen::init() called at the time t
RandomGen_init(r, t) ==
    initFinish(initLoop(initAttempt(initSeed(initCheck(checkSum(initFixed(r))), t))))

\* a call on the object g: random() seeded with seed has given n values,
\* the device is src, the build shifts as shl
CallOn(g, seed, n, src, shl) ==
    [g |-> g, seed |-> seed, n |-> n, dev |-> src.dev, ent |-> src.words, shl |-> shl,
     alive |-> TRUE, cut |-> FALSE, reads |-> <<>>, rejected |-> 0, refills |-> 0,
     res |-> 0, res32 |-> U32Zero, res64 |-> U64Zero, S0 |-> 0, S1 |-> 0, Z |-> U64Zero]

\* RandomGen::RandomGen() but for cs; filled_by is a history field, what
\* wrote rand_seq last: memset, the loop with random() or the loop with fread
BlankRandomGen(cs_value) ==
    [cs |-> cs_value, S |-> U64Zero, rand_seq |-> [k \in 1..seq_size |-> 0],
     curr_pos |-> seq_size, cr |-> NewCryptographer, initialized |-> FALSE,
     filled_by |-> "memset"]

\* the reference check sum: the value checkSum() gives on a new object,
\* which is what the constant 0xA5DC00007F6B is for the array of the code
\* and the generator of the C library
cs ==
    checkSum(initFixed(CallOn(BlankRandomGen(U64Zero), 1, 0,
                              [dev |-> TRUE, words |-> <<>>], "wrap"))).Z

\* RandomGen::RandomGen()
NewRandomGen == BlankRandomGen(cs)

\* RandomGen::RandomGen(const RandomGen &rg)
CopyRandomGen(rg) ==
    [cs |-> rg.cs, S |-> rg.S, rand_seq |-> rg.rand_seq, curr_pos |-> rg.curr_pos,
     cr |-> [m_key |-> rg.cr.m_key, m_replace_table |-> rg.cr.m_replace_table],
     initialized |-> rg.initialized, filled_by |-> rg.filled_by]

\* an operator= that leaves curr_pos as it was
AssignKeepingPos(this, rg) ==
    [this EXCEPT !.cs = rg.cs, !.S = rg.S, !.rand_seq = rg.rand_seq,
                 !.cr = [m_key |-> rg.cr.m_key, m_replace_table |-> rg.cr.m_replace_table],
                 !.initialized = rg.initialized, !.filled_by = rg.filled_by]

\* RandomGen::operator=(const RandomGen &rg) on the object this
Assign(this, rg) ==
    [this EXCEPT !.cs = rg.cs, !.S = rg.S, !.rand_seq = rg.rand_seq,
                 !.curr_pos = rg.curr_pos,
                 !.cr = [m_key |-> rg.cr.m_key, m_replace_table |-> rg.cr.m_replace_table],
                 !.initialized = rg.initialized, !.filled_by = rg.filled_by]

(***************************************************************************)
(* The caller of the engine: inputs drawn from small sets.                *)
(***************************************************************************)
KeyA == [i \in 1..8 |-> U32(i, 0)]
\* words that make the sum N1 + key reach and pass 2^32 - 1
KeyB == <<U32(65535, 65535), U32(65534, 65535), U32(0, 32768), U32(22136, 4660),
          U32(57072, 39612), U32(0, 0), U32(48879, 57005), U32(65535, 32767)>>
Keys == {KeyA, KeyB}

\* the identity table, and a table that is no permutation (as init() makes them)
TableA == [i \in 1..8 |-> [j \in 1..16 |-> j - 1]]
TableB == [i \in 1..8 |-> [j \in 1..16 |-> ((j - 1) * 7 + (i - 1) * 3 + 5) % 15]]
Tables == {TableA, TableB}

Syncs == {U64Zero, <<U32(30600, 21862), U32(13124, 4386)>>}

Lengths == 0..MaxLen

Buffers == {[i \in 1..n |-> ((i - 1) * 37 + 11) % 256] : n \in Lengths}

VARIABLES
    cr,      \* the engine the caller uses
    data,    \* the caller's buffer (_data, _size = Len(data))
    S,       \* the caller's synchro, passed by reference
    S_copy,  \* the caller's saved copy of the synchro it started from
    hist,    \* the transform calls made on the buffer since it was loaded
    rg,      \* the RandomGen objects of the process, by number
    made,    \* the numbers of the objects constructed so far
    rnd,     \* random(): the seed and the number of values drawn since
    alive,   \* FALSE once the process called exit(1)
    shl,     \* what the build makes of a shift by the width or more
    last,    \* the last call made on a RandomGen object
    since,   \* by object, the bytes it gave since it was last duplicated
    twin,    \* by object, TRUE from a duplication to the next refill or init
    calls    \* the number of calls made on RandomGen objects

engine_vars == <<cr, data, S, S_copy, hist>>
gen_vars == <<rg, made, rnd, alive, shl, last, since, twin, calls>>
vars == <<engine_vars, gen_vars>>

NoCall == [op |-> "none"]

InitEngine ==
    /\ cr = NewCryptographer
    /\ data = <<>>
    /\ S = U64Zero
    /\ S_copy = U64Zero
    /\ hist = <<>>

\* one object constructed, random() never seeded
InitGen ==
    /\ rg = [i \in 1..2 |-> NewRandomGen]
    /\ made = {1}
    /\ rnd = [seed |-> 1, n |-> 0]
    /\ alive = TRUE
    /\ last = NoCall
    /\ since = [i \in 1..2 |-> <<>>]
    /\ twin = [i \in 1..2 |-> FALSE]
    /\ calls = 0

\* a process that uses the engine
Init == InitEngine /\ InitGen /\ shl = "wrap"

\* a process that uses the generator, under either build
InitRandom == InitEngine /\ InitGen /\ shl \in ShiftModes

\* Cryptographer::setKey (the caller configures the engine before it starts
\* on a buffer, not between the calls of one stream)
setKey(k) ==
    /\ hist = <<>>
    /\ cr' = [cr EXCEPT !.m_key = k]
    /\ UNCHANGED <<data, S, S_copy, hist, gen_vars>>

\* Cryptographer::setReplaceTable
setReplaceTable(t) ==
    /\ hist = <<>>
    /\ cr' = [cr EXCEPT !.m_replace_table = t]
    /\ UNCHANGED <<data, S, S_copy, hist, gen_vars>>

\* the caller starts a new stream: it fills its buffer, picks a synchro and
\* keeps a copy of it (int S1 = S in the examples of the documentation)
NewStream(b, s) ==
    /\ data' = b
    /\ S' = s
    /\ S_copy' = s
    /\ hist' = <<>>
    /\ UNCHANGED <<cr, gen_vars>>

\* the caller resets the synchro to the value it started from
RestoreSync ==
    /\ S # S_copy
    /\ S' = S_copy
    /\ UNCHANGED <<cr, data, S_copy, hist, gen_vars>>

\* the record the caller's log keeps of one call
Call(op, encoding, r) ==
    [op |-> op, encoding |-> encoding, cr |-> cr, din |-> data, Sin |-> S,
     dout |-> r.data, Sout |-> r.S, ret |-> r.ret, used |-> r.used]

CallSimpleReplace(encoding) ==
    /\ Len(hist) < MaxCalls
    /\ \E r \in {simpleReplace(cr, data, encoding)} :
           /\ data' = r.data
           /\ hist' = Append(hist, Call("simpleReplace", encoding,
                                        [data |-> r.data, S |-> S, ret |-> r.ret, used |-> <<>>]))
    /\ UNCHANGED <<cr, S, S_copy, gen_vars>>

CallGamming ==
    /\ Len(hist) < MaxCalls
    /\ \E r \in {gamming(cr, data, S)} :
           /\ data' = r.data
           /\ S' = r.S
           /\ hist' = Append(hist, Call("gamming", TRUE, r))
    /\ UNCHANGED <<cr, S_copy, gen_vars>>

CallGammingWF(encoding) ==
    /\ Len(hist) < MaxCalls
    /\ \E r \in {gammingWF(cr, data, S, encoding)} :
           /\ data' = r.data
           /\ S' = r.S
           /\ hist' = Append(hist, Call("gammingWF", encoding, r))
    /\ UNCHANGED <<cr, S_copy, gen_vars>>

Configure ==
    \/ \E k \in Keys : setKey(k)
    \/ \E t \in Tables : setReplaceTable(t)

\* the times at which init is called (the seed of cr.init())
TimeSeeds == {2, 3}

\* series lengths, of bits that alternate from one series to the next, that
\* test3 lets pass on an array of 96 bits when a long series joins them
RunFiller ==
    <<1, 1, 2, 1, 1, 1, 1, 4, 1, 3, 2, 2, 1, 1, 3, 1, 1, 2, 4, 1,
      1, 3, 1, 1, 1, 2, 2, 1, 1, 2, 3, 1, 2, 1, 2, 1, 5, 2, 1, 1>>

RECURSIVE SumLens(_)
SumLens(lens) == IF lens = <<>> THEN 0 ELSE Head(lens) + SumLens(Tail(lens))

\* the bits of the series lens, the first series made of the bit b
RECURSIVE RunBits(_, _)
RunBits(lens, b) ==
    IF lens = <<>> THEN <<>>
    ELSE [k \in 1..Head(lens) |-> b] \o RunBits(Tail(lens), ~b)

\* the array whose bit i (bit i % 8 of the byte i / 8) is bits[i + 1]
BytesOfBits(bits) ==
    [k \in 1..(Len(bits) \div byteSize) |->
        LET bit(j) == IF bits[byteSize * (k - 1) + j + 1] THEN 2^j ELSE 0
        IN  bit(0) + bit(1) + bit(2) + bit(3) + bit(4) + bit(5) + bit(6) + bit(7)]

\* the lengths of the long series the caller tries, and the number of filler
\* series it puts before the long one
LongRuns == 22..28
Places == {0, 10, 20, 30, Len(RunFiller)}

\* an array of sizeof(rand_seq) bytes with a series of L bits after `at`
\* series of the filler, single bits in front making up the length
RunBuffer(L, at, b) ==
    BytesOfBits(RunBits([k \in 1..(seq_bits_size - L - SumLens(RunFiller)) |-> 1]
                            \o SubSeq(RunFiller, 1, at) \o <<L>>
                            \o SubSeq(RunFiller, at + 1, Len(RunFiller)), b))

\* the caller loads rand_seq with an array of its own
LoadSeq(b) ==
    /\ data' = b
    /\ hist' = <<>>
    /\ UNCHANGED <<cr, S, S_copy, gen_vars>>

\* test3() on the array loaded
CallTest3 ==
    /\ hist = <<>> /\ Len(data) = seq_size
    /\ hist' = <<[op |-> "test3", seq |-> data, ret |-> test3(data)]>>
    /\ UNCHANGED <<cr, data, S, S_copy, gen_vars>>

NextSeries ==
    \/ \E L \in LongRuns, at \in Places, b \in BOOLEAN : LoadSeq(RunBuffer(L, at, b))
    \/ CallTest3

SpecSeries == Init /\ [][NextSeries]_vars

\* the uint32 whose k lowest bits, or k highest bits, are set (k in 0..32)
LowOnes(k) == IF k <= 16 THEN U32(2^k - 1, 0) ELSE U32(B16 - 1, 2^(k - 16) - 1)
HighOnes(k) ==
    IF k <= 16 THEN U32(0, B16 - 2^(16 - k)) ELSE U32(B16 - 2^(32 - k), B16 - 1)

\* the candidate values of S the caller tries: each half has none, all or
\* about half of its bits set, from the bottom or from the top
OnesCounts == {0, 32} \cup 12..20
HalfWords == {LowOnes(k) : k \in OnesCounts} \cup {HighOnes(k) : k \in OnesCounts}
Candidates == {<<lo, hi>> : lo \in HalfWords, hi \in HalfWords}

\* the caller sets S to a value of its own
LoadS(s) ==
    /\ S' = s
    /\ hist' = <<>>
    /\ UNCHANGED <<cr, data, S_copy, gen_vars>>

\* isCurrentS() on that value
CallIsCurrentS ==
    /\ hist = <<>>
    /\ hist' = <<[op |-> "isCurrentS", S |-> S, ret |-> isCurrentS(S, shl)]>>
    /\ UNCHANGED <<cr, data, S, S_copy, gen_vars>>

NextSync ==
    \/ \E s \in Candidates : LoadS(s)
    \/ CallIsCurrentS

SpecSync == InitRandom /\ [][NextSync]_vars

\* srandom(seed)
srandom(seed) == [seed |-> seed, n |-> 0]

\* the loop of Cryptographer::init from the state p of random(), which
\* draws m_key[i] and then the row i of the table, for i = 0..7
InitLoop(p) ==
    [m_key |-> [i \in 1..8 |-> Random(p.seed, p.n + 17 * (i - 1))],
     m_replace_table |->
        [i \in 1..8 |->
            [j \in 1..16 |-> IntOfU32(Random(p.seed, p.n + 17 * (i - 1) + j)) % 15]]]

\* an init that forgets srandom(0) when _rand is false
Cryptographer_initUnseeded(p, _rand, t) ==
    IF _rand THEN InitLoop(srandom(t)) ELSE InitLoop(p)

\* the engines of cr.init() at the times of the model
SeededCryptographer == [t \in TimeSeeds |-> Cryptographer_init(t)]

\* the engine after Cryptographer::init(_rand) called at the time t, random()
\* being in the state p
Cryptographer_initAt(p, _rand, t) ==
    IF _rand THEN SeededCryptographer[t] ELSE FixedCryptographer

\* cr.init(_rand) at the time t
CallCryptInit(_rand, t) ==
    /\ Len(hist) < MaxCalls
    /\ cr' = Cryptographer_initAt(rnd, _rand, t)
    /\ rnd' = [seed |-> IF _rand THEN t ELSE 0, n |-> InitDraws]
    /\ hist' = Append(hist, [op |-> "init", rand |-> _rand, cr |-> cr, rnd |-> rnd,
                             out |-> cr'])
    /\ UNCHANGED <<data, S, S_copy, rg, made, alive, shl, last, since, twin, calls>>

\* the process draws a value from random(), at most MaxCalls of them after
\* each seeding
CallRandom ==
    /\ rnd.n % InitDraws < MaxCalls
    /\ rnd' = [rnd EXCEPT !.n = @ + 1]
    /\ UNCHANGED <<engine_vars, rg, made, alive, shl, last, since, twin, calls>>

\* the caller goes on with another engine, newly constructed
OtherEngine ==
    /\ cr # NewCryptographer
    /\ cr' = NewCryptographer
    /\ UNCHANGED <<data, S, S_copy, hist, gen_vars>>

NextInit ==
    \/ Configure
    \/ OtherEngine
    \/ CallRandom
    \/ \E _rand \in BOOLEAN, t \in TimeSeeds : CallCryptInit(_rand, t)

SpecInit == Init /\ [][NextInit]_vars

NextSimple ==
    \/ Configure
    \/ \E b \in Buffers : NewStream(b, U64Zero)
    \/ \E e \in BOOLEAN : CallSimpleReplace(e)

SpecSimple == Init /\ [][NextSimple]_vars

NextGamma ==
    \/ Configure
    \/ \E b \in Buffers, s \in Syncs : NewStream(b, s)
    \/ RestoreSync
    \/ CallGamming

SpecGamma == Init /\ [][NextGamma]_vars

\* a synchro that the engine of KeyA and TableA encrypts to a counter
\* state whose high word is 2^32 - 1, so that the step S1 + C2 - 1 passes 2^32
CarryEngine == [m_key |-> KeyA, m_replace_table |-> TableA]
SyncCarry == cycle_32R(CarryEngine, <<U32(1, 0), U32Max>>)

NextCounter ==
    \/ Configure
    \/ \E b \in Buffers, s \in Syncs \cup {SyncCarry} : NewStream(b, s)
    \/ CallGamming

SpecCounter == Init /\ [][NextCounter]_vars

NextGammaWF ==
    \/ Configure
    \/ \E b \in Buffers, s \in Syncs : NewStream(b, s)
    \/ RestoreSync
    \/ \E e \in BOOLEAN : CallGammingWF(e)

SpecGammaWF == Init /\ [][NextGammaWF]_vars

(***************************************************************************)
(* The process that uses the generator.                                    *)
(***************************************************************************)
\* the runs of the device
StreamIds == {1701, 4591, 10583}

\* the device during a call: it delivers the words of a run, or it cannot
\* be opened
NoDevice == [dev |-> FALSE, words |-> <<>>]
Sources == {[dev |-> TRUE, words |-> Stream(e)] : e \in StreamIds} \cup {NoDevice}

\* a call that does not come to open the device
Unused == [dev |-> TRUE, words |-> <<>>]

\* what a call that reads size bytes may meet: it opens the device only if
\* curr_pos reaches the end of the array before the last byte is read
SourcesFor(g, size, srcs) == IF g.curr_pos + size > seq_size THEN srcs ELSE {Unused}

\* the bytes the call r gave to its caller
Served(r) == [k \in DOMAIN r.reads |-> r.reads[k].seq[r.reads[k].pos + 1]]

\* the call r on the object i, that started as pre, comes to its end
Return(i, op, pre, r) ==
    /\ rg' = [rg EXCEPT ![i] = r.g]
    /\ rnd' = [seed |-> r.seed, n |-> r.n]
    /\ alive' = r.alive
    /\ last' = [op |-> op, inst |-> i, pre |-> pre, reads |-> r.reads,
                res |-> r.res, res32 |-> r.res32, res64 |-> r.res64,
                rejected |-> r.rejected, refills |-> r.refills]
    /\ twin' = [twin EXCEPT ![i] = @ /\ r.alive /\ r.refills = 0 /\ op # "init"]
    /\ since' = [since EXCEPT ![i] = IF twin'[i] THEN @ \o Served(r) ELSE <<>>]
    /\ calls' = calls + 1
    /\ UNCHANGED <<made, shl, engine_vars>>

\* rg.init() on the object i at the time t
CallInit(i, t, src) ==
    /\ alive /\ i \in made /\ calls < MaxGenCalls
    /\ \E r \in {RandomGen_init(CallOn(rg[i], rnd.seed, rnd.n, src, shl), t)} :
           ~r.cut /\ Return(i, "init", CallOn(rg[i], rnd.seed, rnd.n, src, shl), r)

CallNextInt8(i, src) ==
    /\ alive /\ i \in made /\ calls < MaxGenCalls
    /\ \E r \in {nextInt8(CallOn(rg[i], rnd.seed, rnd.n, src, shl))} :
           ~r.cut /\ Return(i, "nextInt8", CallOn(rg[i], rnd.seed, rnd.n, src, shl), r)

CallNextInt32(i, src) ==
    /\ alive /\ i \in made /\ calls < MaxGenCalls
    /\ \E r \in {nextInt32(CallOn(rg[i], rnd.seed, rnd.n, src, shl))} :
           ~r.cut /\ Return(i, "nextInt32", CallOn(rg[i], rnd.seed, rnd.n, src, shl), r)

CallNextInt64(i, src) ==
    /\ alive /\ i \in made /\ calls < MaxGenCalls
    /\ \E r \in {nextInt64(CallOn(rg[i], rnd.seed, rnd.n, src, shl))} :
           ~r.cut /\ Return(i, "nextInt64", CallOn(rg[i], rnd.seed, rnd.n, src, shl), r)

\* the object 2 is constructed as a copy of the object 1: RandomGen rg2(rg1)
CopyConstruct ==
    /\ alive /\ 2 \notin made /\ calls < MaxGenCalls
    /\ made' = {1, 2}
    /\ rg' = [rg EXCEPT ![2] = CopyRandomGen(rg[1])]
    /\ last' = [op |-> "copy", inst |-> 2, from |-> 1]
    /\ since' = [i \in 1..2 |-> <<>>]
    /\ twin' = [i \in 1..2 |-> TRUE]
    /\ calls' = calls + 1
    /\ UNCHANGED <<rnd, alive, shl, engine_vars>>

\* the object i is assigned the object j: rg_i = rg_j
CallAssign(i, j) ==
    /\ alive /\ i \in made /\ j \in made /\ i # j /\ calls < MaxGenCalls
    /\ rg[i] # rg[j]
    /\ rg' = [rg EXCEPT ![i] = Assign(rg[i], rg[j])]
    /\ last' = [op |-> "assign", inst |-> i, from |-> j]
    /\ since' = [k \in 1..2 |-> <<>>]
    /\ twin' = [k \in 1..2 |-> TRUE]
    /\ calls' = calls + 1
    /\ UNCHANGED <<made, rnd, alive, shl, engine_vars>>

Draw(i, srcs) ==
    \/ \E src \in SourcesFor(rg[i], 1, srcs) : CallNextInt8(i, src)
    \/ \E src \in SourcesFor(rg[i], 4, srcs) : CallNextInt32(i, src)
    \/ \E src \in SourcesFor(rg[i], 8, srcs) : CallNextInt64(i, src)

\* one object: initialised at any moment, and drawn from at any moment
NextRandom ==
    \/ \E t \in TimeSeeds, src \in Sources : CallInit(1, t, src)
    \/ Draw(1, Sources)

SpecRandom == InitRandom /\ [][NextRandom]_vars

\* the device as the process with two objects meets it after init
CopySources == {[dev |-> TRUE, words |-> Stream(4591)], NoDevice}

\* two objects, the second made as a copy of the first; init, if called at
\* all, is the first call of the process, and once there are two objects
\* each is drawn from until its first refill after a duplication
NextCopy ==
    \/ \E t \in TimeSeeds, src \in Sources : calls = 0 /\ CallInit(1, t, src)
    \/ \E i \in made : (made = {1} \/ twin[i]) /\ Draw(i, CopySources)
    \/ CopyConstruct
    \/ \E i, j \in made : CallAssign(i, j)

SpecCopy == InitRandom /\ [][NextCopy]_vars

(***************************************************************************)
(* Properties of the block transforms.                                     *)
(***************************************************************************)
\* the calls the log holds
Calls == {hist[j] : j \in 1..Len(hist)}

\* the j-th 8-byte block of the buffer d, j from 0
BlockOf(d, j) == SubSeq(d, 8 * j + 1, 8 * j + 8)

\* C1: for every key, table and buffer whose length is a multiple of 8,
\* simpleReplace(encoding = true) followed by simpleReplace(encoding = false)
\* on the same engine gives back the original buffer.
C1_SimpleRoundTrip ==
    \A j \in 1..(Len(hist) - 1) :
        (/\ hist[j].op = "simpleReplace" /\ hist[j].encoding
         /\ hist[j + 1].op = "simpleReplace" /\ ~hist[j + 1].encoding
         /\ Len(hist[j].din) % 8 = 0)
        => hist[j + 1].dout = hist[j].din

\* two blocks were encrypted and decrypted under the key and table that are
\* not the trivial ones, and the encryption changed them
C1_Witness ==
    /\ Len(hist) = 2
    /\ hist[1].encoding /\ ~hist[2].encoding
    /\ Len(hist[1].din) = 16
    /\ hist[1].cr.m_key = KeyB /\ hist[1].cr.m_replace_table = TableB
    /\ hist[1].dout # hist[1].din
    /\ hist[2].din = hist[1].dout
    /\ hist[2].dout = hist[1].din

\* C2: simpleReplace on a buffer whose length is no multiple of 8 returns
\* failure and leaves every byte unchanged; on a multiple of 8 it returns
\* success and output block j is what the transform makes of input block j
\* alone, under the same direction, key and table.
C2_LengthGuardAndBlocks ==
    \A h \in Calls :
        h.op = "simpleReplace" =>
            IF Len(h.din) % 8 # 0
            THEN ~h.ret /\ h.dout = h.din
            ELSE /\ h.ret
                 /\ Len(h.dout) = Len(h.din)
                 /\ \A j \in 0..(Len(h.din) \div 8 - 1) :
                        BlockOf(h.dout, j)
                            = simpleReplace(h.cr, BlockOf(h.din, j), h.encoding).data

\* a call on 13 bytes was refused
C2_Witness ==
    \E h \in Calls :
        /\ h.op = "simpleReplace" /\ Len(h.din) = 13
        /\ ~h.ret /\ h.dout = h.din
        /\ h.cr.m_key = KeyB

\* C3: gamming with synchro S0, then gamming again on the output with the
\* synchro reset to S0, gives back the original buffer, for every length.
C3_GammaRoundTrip ==
    \A j \in 1..(Len(hist) - 1) :
        (/\ hist[j].op = "gamming" /\ hist[j + 1].op = "gamming"
         /\ hist[j + 1].Sin = hist[j].Sin)
        => hist[j + 1].dout = hist[j].din

\* a buffer with a full block and a partial tail went through both calls,
\* the synchro having been put back in between
C3_Witness ==
    /\ Len(hist) = 2
    /\ hist[1].op = "gamming" /\ hist[2].op = "gamming"
    /\ Len(hist[1].din) = 13
    /\ hist[1].Sout # hist[1].Sin
    /\ hist[2].Sin = hist[1].Sin
    /\ hist[1].dout # hist[1].din
    /\ hist[2].dout = hist[1].din

\* C4: gammingWF(encoding = true) with synchro S0, then gammingWF(encoding =
\* false) on the output with the synchro reset to S0, gives back the
\* original buffer, for every length.
C4_FeedbackRoundTrip ==
    \A j \in 1..(Len(hist) - 1) :
        (/\ hist[j].op = "gammingWF" /\ hist[j].encoding
         /\ hist[j + 1].op = "gammingWF" /\ ~hist[j + 1].encoding
         /\ hist[j + 1].Sin = hist[j].Sin)
        => hist[j + 1].dout = hist[j].din

\* two full blocks and a partial one were encrypted and decrypted
C4_Witness ==
    /\ Len(hist) = 2
    /\ hist[1].op = "gammingWF" /\ hist[1].encoding /\ ~hist[2].encoding
    /\ Len(hist[1].din) = 17
    /\ hist[1].Sout # hist[1].Sin
    /\ hist[2].Sin = hist[1].Sin
    /\ hist[1].dout # hist[1].din
    /\ hist[2].dout = hist[1].din

\* the ciphertext of a gammingWF call: its output when it encrypts, its
\* input when it decrypts
Ciphertext(h) == IF h.encoding THEN h.dout ELSE h.din

\* the last full 8-byte block of the buffer d (Len(d) >= 8)
LastFullBlock(d) == U64OfBytes(BlockOf(d, Len(d) \div 8 - 1))

\* C5: on return from gammingWF over a buffer of at least 8 bytes, the
\* synchro is the last full ciphertext block, for every length >= 8,
\* exact multiples of 8 included.
C5_SyncIsLastFullBlock ==
    \A h \in Calls :
        (h.op = "gammingWF" /\ Len(h.din) >= 8)
        => h.Sout = LastFullBlock(Ciphertext(h))

\* C5, as far as the code goes: the property holds for the lengths that
\* are no multiple of 8.
C5_SyncIsLastFullBlockBeforeTail ==
    \A h \in Calls :
        (h.op = "gammingWF" /\ Len(h.din) >= 8 /\ Len(h.din) % 8 # 0)
        => h.Sout = LastFullBlock(Ciphertext(h))

\* a call on exactly one block came back with the synchro it was given,
\* which is not the ciphertext block
C5_Witness ==
    \E h \in Calls :
        /\ h.op = "gammingWF" /\ h.encoding /\ Len(h.din) = 8
        /\ h.Sout = h.Sin
        /\ h.Sout # LastFullBlock(Ciphertext(h))

\* the counter state after n steps from the state Sn
RECURSIVE Advance(_, _)
Advance(Sn, n) ==
    IF n = 0 THEN Sn ELSE Advance(<<NextS0(LoU32(Sn)), NextS1(HiU32(Sn))>>, n - 1)

\* the number of blocks of a buffer of n bytes, a partial tail included
NumBlocks(n) == (n + 7) \div 8

\* C6: in one gamming call the j-th block, the final full block and a
\* partial tail included, is XORed with the encryption of the counter state
\* advanced j times; two consecutive blocks never use the same state, and
\* on return the synchro is the state used for the last block.
C6_EveryBlockAdvances ==
    \A h \in Calls :
        h.op = "gamming" =>
            /\ Len(h.used) = NumBlocks(Len(h.din))
            /\ \A j \in 1..Len(h.used) :
                   h.used[j] = Advance(cycle_32Z(h.cr, h.Sin), j)
            /\ \A j \in 1..(Len(h.used) - 1) : h.used[j] # h.used[j + 1]
            /\ (Len(h.used) > 0 => h.Sout = h.used[Len(h.used)])

\* C6, the part about consecutive blocks alone.
C6_NoSharedState ==
    \A h \in Calls :
        h.op = "gamming" =>
            \A j \in 1..(Len(h.used) - 1) : h.used[j] # h.used[j + 1]

\* a call on two full blocks used one counter state for both
C6_Witness ==
    \E h \in Calls :
        /\ h.op = "gamming" /\ Len(h.din) = 16
        /\ Len(h.used) = 2
        /\ h.used[1] = h.used[2]
        /\ h.Sout = h.used[2]
(***************************************************************************)
(* Properties of the generator.                                            *)
(***************************************************************************)
DrawOps == {"nextInt8", "nextInt32", "nextInt64"}

\* the bytes the call held in last read, each with the array it was read from
ReadsOf(call) == {call.reads[k] : k \in DOMAIN call.reads}

C8_CursorInBounds ==
    /\ \A i \in made : rg[i].curr_pos \in 0..seq_size
    /\ last.op \in DrawOps \cup {"init"} =>
           \A rd \in ReadsOf(last) : rd.pos >= 0 /\ rd.pos < seq_size
    /\ (last.op \in DrawOps /\ last.pre.g.curr_pos = seq_size) =>
           /\ alive => last.reads # <<>>
           /\ last.reads # <<>> => last.refills >= 1 /\ last.reads[1].pos = 0

\* C8, a case: an object that was drawn from until curr_pos came to
\* sizeof(rand_seq) is drawn from again
C8_Witness ==
    /\ last.op \in DrawOps /\ alive
    /\ last.pre.g.initialized
    /\ last.pre.g.curr_pos = seq_size
    /\ last.reads # <<>>

\* n calls of nextInt8 one after another, from the state r
RECURSIVE ByteDraws(_, _)
ByteDraws(r, n) == IF n = 0 THEN r ELSE ByteDraws(nextInt8(r), n - 1)

\* the bytes b0, b1, ... of n calls of nextInt8 from the state the call began in
BytesDrawn(r) == [k \in DOMAIN r.reads |-> r.reads[k].seq[r.reads[k].pos + 1]]

\* what a caller can tell of the generator after a call
SameOutcome(r, call) ==
    /\ r.alive = alive
    /\ r.g = rg[call.inst]
    /\ r.n = rnd.n /\ r.seed = rnd.seed
    /\ r.reads = call.reads

\* C9: nextInt32 (nextInt64) gives the value of 4 (8) nextInt8 calls made in
\* its place, the first byte lowest, and leaves the object, the device and
\* the C library's generator as those calls leave them, a refill in the
\* middle of the value included
C9_WordIsBytesLowFirst ==
    /\ (last.op = "nextInt32" /\ alive) =>
           \E r \in {ByteDraws(last.pre, 4)} :
               /\ SameOutcome(r, last)
               /\ last.res32 = U32OfBytes(BytesDrawn(r))
    /\ (last.op = "nextInt64" /\ alive) =>
           \E r \in {ByteDraws(last.pre, 8)} :
               /\ SameOutcome(r, last)
               /\ last.res64 = U64OfBytes(BytesDrawn(r))
    /\ (last.op \in {"nextInt32", "nextInt64"} /\ ~alive) =>
           \E r \in {ByteDraws(last.pre, IF last.op = "nextInt32" THEN 4 ELSE 8)} :
               ~r.alive /\ r.g = rg[last.inst]

\* C9, a case: a nextInt32 that began less than 4 bytes before the end of
\* the array, so that the refill came in the middle of the value, and whose
\* bytes tell the byte orders apart
C9_Witness ==
    /\ last.op = "nextInt32" /\ alive
    /\ last.refills = 1
    /\ last.reads[1].pos # 0
    /\ last.res32 # U32OfBytes([k \in 1..4 |-> BytesDrawn(last)[5 - k]])

\* C10: after a copy construction or an assignment the two objects agree in
\* cs, S, rand_seq, curr_pos, key, table and initialized; and as long as
\* neither has refilled, both are the same distance from the curr_pos they
\* were copied at and have given the same bytes, as far as both have drawn
C10_CopiesDrawAlike ==
    /\ last.op \in {"copy", "assign"} => rg[last.inst] = rg[last.from]
    /\ (twin[1] /\ twin[2]) =>
           /\ rg[1].curr_pos - Len(since[1]) = rg[2].curr_pos - Len(since[2])
           /\ [f \in {"cs", "S", "rand_seq", "cr", "initialized"} |-> rg[1][f]]
                  = [f \in {"cs", "S", "rand_seq", "cr", "initialized"} |-> rg[2][f]]
           /\ \A k \in DOMAIN since[1] \cap DOMAIN since[2] : since[1][k] = since[2][k]

\* C10, a case: an object made by init() was drawn from and then
\* duplicated, and both objects have given four bytes or more since
C10_Witness ==
    /\ made = {1, 2} /\ alive
    /\ twin[1] /\ twin[2]
    /\ rg[1].initialized /\ rg[1].curr_pos - Len(since[1]) > 0
    /\ Len(since[1]) >= 4 /\ Len(since[2]) >= 4
\* C11: an init() whose checkSum() differs from cs ends the process with
\* the object as checkSum() left it: cr still holds the fixed key and table,
\* the C library's generator is still seeded with 0, S is the value
\* checkSum() left and initialized is what it was; and an init() that turned
\* initialized from false to true had a checkSum() equal to cs
C11_ChecksumGuardsInit ==
    last.op = "init" =>
        \A c \in {checkSum(initFixed(last.pre))} :
            /\ (Running(c) /\ c.Z # last.pre.g.cs) =>
                   /\ ~alive
                   /\ rg[last.inst] = c.g
                   /\ rg[last.inst].cr = FixedCryptographer
                   /\ rg[last.inst].initialized = last.pre.g.initialized
                   /\ rnd = [seed |-> 0, n |-> c.n]
            /\ (rg[last.inst].initialized /\ ~last.pre.g.initialized) =>
                   Running(c) /\ c.Z = last.pre.g.cs

\* C11, a case: init() on an object that can open the device came to a
\* checkSum() other than cs
C11_Witness ==
    /\ last.op = "init" /\ ~alive
    /\ last.pre.dev /\ last.pre.ent # <<>>
    /\ \E c \in {checkSum(initFixed(last.pre))} : Running(c) /\ c.Z # last.pre.g.cs

(***************************************************************************)
(* Properties of Cryptographer::init.                                      *)
(***************************************************************************)
\* C12: every init(false), whatever the engine held and wherever random()
\* stood before it, leaves the same key and the same table, and every
\* table entry is in 0..15
C12_FixedInitIsDeterministic ==
    \A h1, h2 \in Calls :
        (h1.op = "init" /\ h2.op = "init" /\ ~h1.rand /\ ~h2.rand) =>
            /\ h1.out.m_key = h2.out.m_key
            /\ h1.out.m_replace_table = h2.out.m_replace_table
            /\ \A i \in 1..8, j \in 1..16 : h1.out.m_replace_table[i][j] \in 0..15

\* C12, a case: two init(false) calls, the first in a process that never
\* seeded random(), the second on another engine state and after further
\* draws from random()
C12_Witness ==
    /\ Len(hist) = 2
    /\ hist[1].op = "init" /\ ~hist[1].rand
    /\ hist[2].op = "init" /\ ~hist[2].rand
    /\ hist[1].cr # hist[2].cr
    /\ hist[1].rnd.seed = 1 /\ hist[1].rnd.n > 0
    /\ hist[2].rnd.seed = 0 /\ hist[2].rnd.n > InitDraws

(***************************************************************************)
(* Properties of the tests of the array.                                   *)
(***************************************************************************)
\* the bits i .. i + n - 1 of seq are equal
EqualBits(seq, i, n) == \A k \in 1..(n - 1) : SeqBit(seq, i + k) = SeqBit(seq, i)

\* seq holds a series of more than 26 equal bits
HasLongSeries(seq) ==
    \E i \in 0..(seq_bits_size - MaxSeries - 1) : EqualBits(seq, i, MaxSeries + 1)

\* C13: test3 fails every array that holds a series of more than 26 equal
\* bits, wherever the series lies, the end of the array included
C13_LongSeriesFails ==
    \A h \in Calls : (h.op = "test3" /\ HasLongSeries(h.seq)) => ~h.ret

\* C13, as far as the code goes: a series of more than 26 bits that ends
\* before the last bit fails, and so does one of more than 27 bits anywhere
C13_LongSeriesBeforeEndFails ==
    \A h \in Calls :
        (/\ h.op = "test3"
         /\ \/ \E i \in 0..(seq_bits_size - MaxSeries - 2) :
                   EqualBits(h.seq, i, MaxSeries + 1)
            \/ \E i \in 0..(seq_bits_size - MaxSeries - 2) :
                   EqualBits(h.seq, i, MaxSeries + 2))
        => ~h.ret

\* C13, a case: test3 passed an array whose last 27 bits are equal
C13_Witness ==
    \E h \in Calls :
        /\ h.op = "test3" /\ h.ret
        /\ EqualBits(h.seq, seq_bits_size - MaxSeries - 1, MaxSeries + 1)
        /\ SeqBit(h.seq, seq_bits_size - MaxSeries - 2)
               # SeqBit(h.seq, seq_bits_size - MaxSeries - 1)

(***************************************************************************)
(* Properties of the steps of gammingWF and gamming.                       *)
(***************************************************************************)
\* C14: in gammingWF the synchro of the step j + 1 is the ciphertext block
\* of the step j in both directions: the block the step wrote when
\* encrypting, the block the step read when decrypting
C14_FeedbackIsCiphertext ==
    \A h \in Calls :
        h.op = "gammingWF" =>
            /\ Len(h.used) = NumBlocks(Len(h.din))
            /\ (Len(h.used) > 0 => h.used[1] = h.Sin)
            /\ \A j \in 1..(Len(h.used) - 1) :
                   h.used[j + 1] = U64OfBytes(BlockOf(Ciphertext(h), j - 1))

\* C14 as it is worded: the synchro of the step j + 1 is the block the step
\* j gave, ciphertext when encrypting and recovered plaintext when decrypting
C14_FeedbackIsStepOutput ==
    \A h \in Calls :
        h.op = "gammingWF" =>
            \A j \in 1..(Len(h.used) - 1) :
                h.used[j + 1] = U64OfBytes(BlockOf(h.dout, j - 1))

\* C14, a case: a decrypting call over three blocks, whose second and third
\* steps took the blocks read, which are not the blocks recovered
C14_Witness ==
    \E h \in Calls :
        /\ h.op = "gammingWF" /\ ~h.encoding /\ Len(h.din) = 17
        /\ h.used[2] = U64OfBytes(BlockOf(h.din, 0))
        /\ h.used[3] = U64OfBytes(BlockOf(h.din, 1))
        /\ h.used[2] # U64OfBytes(BlockOf(h.dout, 0))
        /\ h.used[3] # U64OfBytes(BlockOf(h.dout, 1))

\* the value in 1..2^32 - 1 that is congruent to S1 + C2 modulo 2^32 - 1,
\* the sum S1 + C2 - 1 being taken with its carry
CongruentS1(S1) == IncU32(ModPow32m1(AddU32Wide(S1, AddU32(C2, U32Max))))

\* S1 + C2 - 1 is 2^32 or more
Carries(S1) == AddU32Wide(S1, AddU32(C2, U32Max)).c = 1

\* the counter state the first step of gamming starts from
Counter0(h) == cycle_32Z(h.cr, h.Sin)

\* C15: the first counter step of a gamming call takes S0 to
\* (S0 + 0x01010101) mod 2^32 and S1 to the value in 1..2^32 - 1 congruent
\* to S1 + 0x01010104 modulo 2^32 - 1, for every S1
C15_CounterStep ==
    \A h \in Calls :
        (h.op = "gamming" /\ Len(h.din) > 8) =>
            /\ LoU32(h.used[1]) = AddU32(LoU32(Counter0(h)), C1)
            /\ HiU32(h.used[1]) = CongruentS1(HiU32(Counter0(h)))

\* C15, as far as the code goes: the step is as stated when S1 + C2 - 1
\* stays below 2^32, and S0 is as stated always
C15_CounterStepNoCarry ==
    \A h \in Calls :
        (h.op = "gamming" /\ Len(h.din) > 8) =>
            /\ LoU32(h.used[1]) = AddU32(LoU32(Counter0(h)), C1)
            /\ ~Carries(HiU32(Counter0(h))) =>
                   HiU32(h.used[1]) = CongruentS1(HiU32(Counter0(h)))

\* C15, a case: S1 was 2^32 - 1, and the step gave 0x01010103, one less
\* than the value congruent to S1 + C2
C15_Witness ==
    \E h \in Calls :
        /\ h.op = "gamming" /\ Len(h.din) > 8
        /\ HiU32(Counter0(h)) = U32Max
        /\ HiU32(h.used[1]) = U32(259, 257)
        /\ CongruentS1(U32Max) = U32(260, 257)

(***************************************************************************)
(* Properties of isCurrentS and checkSum.                                  *)
(***************************************************************************)
\* the number of bits set in a value below 2^16, in a uint32, in a uint64
RECURSIVE Popcount16(_)
Popcount16(x) == IF x = 0 THEN 0 ELSE (x % 2) + Popcount16(x \div 2)
Popcount32(w) == Popcount16(w[1]) + Popcount16(w[2])
Popcount64(d) == Popcount32(LoU32(d)) + Popcount32(HiU32(d))

\* C16: isCurrentS accepts a value of S exactly when the number of its bits
\* that are set, counted over all 64 bits, is in 29..35
C16_AcceptsNearHalf ==
    \A h \in Calls :
        h.op = "isCurrentS" => (h.ret <=> Popcount64(h.S) \in 29..35)

\* C16, a case: a value with 30 of its 64 bits set was turned down
C16_Witness ==
    \E h \in Calls :
        /\ h.op = "isCurrentS" /\ ~h.ret
        /\ Popcount64(h.S) = 30
        /\ shl = "wrap"

\* C16, what the code does under the build that takes the shift count
\* modulo 32: it accepts exactly when twice the number of bits set among
\* the 31 lowest, plus 2 if any bit from 31 up is set, is in 32..35
C16_AcceptanceOfWrapBuild ==
    \A h \in Calls :
        (h.op = "isCurrentS" /\ shl = "wrap") =>
            (h.ret <=>
                2 * (Popcount16(LoU32(h.S)[1]) + Popcount16(LoU32(h.S)[2] % (B16 \div 2)))
                + (IF LoU32(h.S)[2] >= B16 \div 2 \/ HiU32(h.S) # U32Zero THEN 2 ELSE 0)
                    \in 32..35)

\* checkSum() as init() runs it for the call that started as pre, and as it
\* would run it on an object just constructed, random() and the device
\* being as they were for pre
CheckOf(pre) == checkSum(initFixed(pre))
FreshCheckOf(pre) == checkSum(initFixed([pre EXCEPT !.g = NewRandomGen]))

\* C17: whatever the object held before init(), its checkSum() gives the
\* value it gives on an object just constructed, and passes if it passes
\* there
C17_ChecksumReproducible ==
    last.op = "init" =>
        \A c \in {CheckOf(last.pre)}, f \in {FreshCheckOf(last.pre)} :
            (Running(f) /\ f.Z = f.g.cs) => (Running(c) /\ c.Z = f.Z)

\* C17, a case: a second init(), on an object that a first init() had
\* initialized, computed a checkSum() other than the one of a new object,
\* and ended the process
C17_Witness ==
    /\ last.op = "init" /\ ~alive
    /\ last.pre.g.initialized /\ last.pre.g.curr_pos < seq_size
    /\ \E c \in {CheckOf(last.pre)}, f \in {FreshCheckOf(last.pre)} :
           /\ Running(f) /\ f.Z = f.g.cs
           /\ Running(c) /\ c.Z # f.Z

\* C17, what holds: on an object whose curr_pos is sizeof(rand_seq) and
\* that is not initialized, checkSum() is the one of a new object
C17_ChecksumOfUnusedObject ==
    last.op = "init" =>
        \A c \in {CheckOf(last.pre)}, f \in {FreshCheckOf(last.pre)} :
            (~last.pre.g.initialized /\ last.pre.g.curr_pos = seq_size) =>
                (Running(c) <=> Running(f)) /\ (Running(c) => c.Z = f.Z)

\* the keys and tables cr.init() makes
SeededEngines == {SeededCryptographer[t] : t \in TimeSeeds}

C18_ShortReadIsFatal ==
    /\ last.op \in DrawOps /\ ~alive
    /\ last.pre.g.initialized /\ last.pre.dev

=============================================================================
